---- MODULE Spec2Model ----
(***************************************************************************)
(* A model of the argilla server's database-backed authentication          *)
(* provider (security/auth_provider/db/provider.py) and of the mutating    *)
(* dataset handlers of API v1 (apis/v1/handlers/datasets.py).              *)
(*                                                                         *)
(* Python values are modelled as follows.  An Optional[str] is a string,   *)
(* with None the value None below; a dict is a function whose DOMAIN is    *)
(* its key set; an Optional[User] is a user record or NoUser.  An encoded  *)
(* JWT is the record of what jose's jwt.encode signs: the header's         *)
(* algorithm, the claims, and the key the signature was made with.  A call *)
(* that may raise returns a record with a "raised" field.                  *)
(*                                                                         *)
(* Four specifications share the variables.  Spec: requests through        *)
(* get_current_user with any credentials, against any store and            *)
(* configuration.  TokenSpec: logins, and the issued token presented as     *)
(* the clock runs past its expiry.  DataSpec: the mutating dataset          *)
(* handlers served one at a time.  RaceSpec: create_dataset and             *)
(* delete_dataset requests interleaved at their database calls.            *)
(***************************************************************************)
EXTENDS Integers, FiniteSets, Sequences, TLC

VARIABLES
    settings,   \* DBAuthProvider.settings: secret_key, algorithm, token_expiration_in_minutes
    users,      \* the rows of the users table
    clock,      \* datetime.utcnow(), in ticks of 1/TicksPerSecond second
    held,       \* the access token the client last received from login, with its issue instant
    resp,       \* the outcome of the last request, NoResponse after any other step
    datasets,   \* the rows of the datasets table
    fields,     \* the rows of the fields table
    questions,  \* the rows of the questions table
    records,    \* the rows of the records table
    index,      \* the dataset ids the search engine holds an index for
    nextId,     \* the next fresh dataset id
    inflight,   \* the create_dataset and delete_dataset requests between two of their steps
    uniqueNames \* whether the datasets table rejects a second row of one (name, workspace_id)

vars == <<settings, users, clock, held, resp,
          datasets, fields, questions, records, index, nextId, inflight, uniqueNames>>

authVars == <<settings, users, clock, held>>
dataVars == <<datasets, fields, questions, records, index, nextId, inflight, uniqueNames>>
tables == <<datasets, fields, questions, records, index, nextId>>

----------------------------------------------------------------------------
(* Bounds and program constants *)

\* Ticks of the clock per second: utcnow() is finer than the second jose keeps.
TicksPerSecond == 2
\* timedelta(minutes=...) in seconds.
SecondsPerMinute == 60
\* Largest configured token_expiration_in_minutes.
MaxTtlMinutes == 1
\* Last tick of the clock in the request specification.
MaxClock == 2
\* Last tick at which the token specification lets a login happen.
MaxLoginTick == 2
\* Ticks the token specification runs on after the latest possible expiry.
ClockSlack == 3
\* Largest exp claim (in seconds) of a token a client presents.
MaxExp == 1
\* Datasets ever created (dataset ids are never reused).
MaxDatasets == 2
\* Records ever created.
MaxRecords == 1
\* create_dataset and delete_dataset requests in flight at once.
MaxRequests == 2

None == "None"
NoUser == [username |-> None, password_hash |-> None, api_key |-> None]
NoResponse == [op |-> "none"]
NoToken == [kind |-> "None"]
EmptyToken == [kind |-> "empty"]
GarbageToken == [kind |-> "garbage"]
NoRequest == [op |-> "none"]

Usernames == {"alice", "bob"}
Passwords == {"pw1", "bad"}
ApiKeys == {"k1", "k2"}
SecretKeys == {"secret1", "secret2"}
Algorithms == {"HS256", "HS384"}
TtlMinutes == 0..MaxTtlMinutes

\* bool(x) of an Optional[str]
Truthy(s) == s # None /\ s # ""

----------------------------------------------------------------------------
(* The credential store (argilla.server.contexts.accounts) *)

Hash(password) == [hashed |-> password]

verify_password(password, password_hash) == password_hash = Hash(password)

Returned(v) == [raised |-> FALSE, value |-> v]
StoreError == [raised |-> TRUE, error |-> "OperationalError"]

get_user_by_username(db, up, username) ==
    IF ~up THEN StoreError
    ELSE IF \E u \in db : u.username = username
         THEN Returned(CHOOSE u \in db : u.username = username)
         ELSE Returned(NoUser)

get_user_by_api_key(db, up, api_key) ==
    IF ~up THEN StoreError
    ELSE IF \E u \in db : u.api_key = api_key
         THEN Returned(CHOOSE u \in db : u.api_key = api_key)
         ELSE Returned(NoUser)

authenticate_user(db, up, username, password) ==
    LET found == get_user_by_username(db, up, username) IN
    IF found.raised THEN found
    ELSE IF found.value # NoUser /\ verify_password(password, found.value.password_hash)
         THEN found
         ELSE Returned(NoUser)

\* The stores the users table can hold: usernames unique, API keys unique.
UserRows == [username : Usernames, password_hash : {Hash("pw1")}, api_key : ApiKeys \cup {None}]

ValidStore(db) ==
    \A u, v \in db :
        /\ (u.username = v.username => u = v)
        /\ (u.api_key = v.api_key /\ u.api_key # None => u = v)

----------------------------------------------------------------------------
(* The token codec (jose.jwt as provider.py calls it) *)

\* timegm(d.utctimetuple()): an instant cut to whole seconds
Timegm(t) == t \div TicksPerSecond

\* timedelta(minutes=m), in ticks
Timedelta(m) == m * SecondsPerMinute * TicksPerSecond

\* jwt.encode(claims, key, algorithm)
jwt_encode(claims, key, algorithm) ==
    [kind |-> "jwt", alg |-> algorithm, claims |-> claims, key |-> key]

\* jwt.decode(token, key, algorithms) at instant t: the signature and the
\* header's algorithm first, then the exp claim (expired when exp < now).
jwt_decode(token, key, algorithms, t) ==
    IF token.kind # "jwt" THEN [raised |-> TRUE, error |-> "JWTError"]
    ELSE IF token.alg \notin algorithms THEN [raised |-> TRUE, error |-> "JWTError"]
    ELSE IF token.key # key THEN [raised |-> TRUE, error |-> "JWTError"]
    ELSE IF "exp" \in DOMAIN token.claims /\ token.claims["exp"] < Timegm(t)
         THEN [raised |-> TRUE, error |-> "ExpiredSignatureError"]
    ELSE Returned(token.claims)

\* payload.get("sub")
PayloadGet(payload, k) == IF k \in DOMAIN payload THEN payload[k] ELSE None

\* A variant that leaves expires_delta out of the exp claim.
create_access_token_NoDelta(cfg, username, expires_delta, t) ==
    IF expires_delta # 0
    THEN jwt_encode([sub |-> username, exp |-> Timegm(t)], cfg.secret_key, cfg.algorithm)
    ELSE jwt_encode([sub |-> username], cfg.secret_key, cfg.algorithm)

\* DBAuthProvider._create_access_token; expires_delta is in ticks, and a
\* timedelta of zero is falsy.
create_access_token(cfg, username, expires_delta, t) ==
    LET to_encode == [sub |-> username] IN
    IF expires_delta # 0
    THEN jwt_encode([sub |-> username, exp |-> Timegm(t + expires_delta)],
                    cfg.secret_key, cfg.algorithm)
    ELSE jwt_encode(to_encode, cfg.secret_key, cfg.algorithm)

----------------------------------------------------------------------------
(* The auth provider *)

\* A variant that reads the claims of a token that failed to decode.
fetch_token_user_Unverified(cfg, db, up, token, t) ==
    LET decoded == jwt_decode(token, cfg.secret_key, {cfg.algorithm}, t)
        payload == IF ~decoded.raised THEN decoded.value
                   ELSE IF token.kind = "jwt" THEN token.claims ELSE <<>>
        username == PayloadGet(payload, "sub")
    IN  IF Truthy(username) THEN get_user_by_username(db, up, username)
        ELSE Returned(NoUser)

\* A variant that lets jwt.decode accept every algorithm it supports.
fetch_token_user_AnyAlgorithm(cfg, db, up, token, t) ==
    LET decoded == jwt_decode(token, cfg.secret_key, Algorithms, t) IN
    IF decoded.raised THEN Returned(NoUser)
    ELSE LET username == PayloadGet(decoded.value, "sub") IN
         IF Truthy(username) THEN get_user_by_username(db, up, username)
         ELSE Returned(NoUser)

\* A variant whose except clause catches every exception.
fetch_token_user_CatchAll(cfg, db, up, token, t) ==
    LET decoded == jwt_decode(token, cfg.secret_key, {cfg.algorithm}, t) IN
    IF decoded.raised THEN Returned(NoUser)
    ELSE LET username == PayloadGet(decoded.value, "sub")
             found == get_user_by_username(db, up, username)
         IN  IF Truthy(username) /\ ~found.raised THEN found
             ELSE Returned(NoUser)

\* DBAuthProvider.fetch_token_user: only a JWTError is caught.
fetch_token_user(cfg, db, up, token, t) ==
    LET decoded == jwt_decode(token, cfg.secret_key, {cfg.algorithm}, t) IN
    IF decoded.raised THEN Returned(NoUser)
    ELSE LET username == PayloadGet(decoded.value, "sub") IN
         IF Truthy(username) THEN get_user_by_username(db, up, username)
         ELSE Returned(NoUser)

\* bool(token) of the Optional[str] the OAuth2 scheme hands over
TokenTruthy(token) == token.kind \notin {"None", "empty"}

\* A variant that tries the bearer token before the API key.
get_current_user_TokenFirst(cfg, db, up, api_key, token, t) ==
    LET user == IF TokenTruthy(token) THEN fetch_token_user(cfg, db, up, token, t)
                ELSE IF Truthy(api_key) THEN get_user_by_api_key(db, up, api_key)
                ELSE Returned(NoUser)
    IN  IF user.raised THEN [status |-> user.error]
        ELSE IF user.value = NoUser THEN [status |-> "UnauthorizedError"]
        ELSE [status |-> "ok", user |-> user.value]

\* DBAuthProvider.get_current_user
get_current_user(cfg, db, up, api_key, token, t) ==
    LET user == IF Truthy(api_key) THEN get_user_by_api_key(db, up, api_key)
                ELSE IF TokenTruthy(token) THEN fetch_token_user(cfg, db, up, token, t)
                ELSE Returned(NoUser)
    IN  IF user.raised THEN [status |-> user.error]
        ELSE IF user.value = NoUser THEN [status |-> "UnauthorizedError"]
        ELSE [status |-> "ok", user |-> user.value]

\* A variant that looks the user up and never checks the password.
login_for_access_token_NoPasswordCheck(cfg, db, up, username, password, t) ==
    LET user == get_user_by_username(db, up, username) IN
    IF user.raised THEN [status |-> user.error]
    ELSE IF user.value = NoUser THEN [status |-> "UnauthorizedError"]
    ELSE [status |-> "ok",
          access_token |-> create_access_token(cfg, user.value.username,
                                               Timedelta(cfg.token_expiration_in_minutes), t)]

\* login_for_access_token
login_for_access_token(cfg, db, up, username, password, t) ==
    LET user == authenticate_user(db, up, username, password) IN
    IF user.raised THEN [status |-> user.error]
    ELSE IF user.value = NoUser THEN [status |-> "UnauthorizedError"]
    ELSE [status |-> "ok",
          access_token |-> create_access_token(cfg, user.value.username,
                                               Timedelta(cfg.token_expiration_in_minutes), t)]

----------------------------------------------------------------------------
(* Requests and environment steps of the authentication provider *)

NoHeld == [token |-> NoToken, at |-> 0, ttl |-> 0, username |-> None]

AllSettings ==
    [secret_key : SecretKeys, algorithm : Algorithms, token_expiration_in_minutes : TtlMinutes]

AllStores == {db \in SUBSET UserRows : ValidStore(db)}

\* The claim sets a client can put in a token it presents.
ClaimSets ==
    [{"sub"} -> Usernames \cup {""}]
        \cup [sub : Usernames \cup {""}, exp : 0..MaxExp]
        \cup {[exp |-> e] : e \in 0..MaxExp}
        \cup {<<>>}

\* The tokens login issues for username under cfg at the ticks of the request specification.
IssuedUnder(cfg, username) ==
    {create_access_token(cfg, username, Timedelta(cfg.token_expiration_in_minutes), t) :
        t \in 0..MaxClock}

PresentedTokens ==
    {NoToken, EmptyToken, GarbageToken}
        \cup {jwt_encode(c, k, a) : c \in ClaimSets, k \in SecretKeys, a \in Algorithms}
        \cup UNION {IssuedUnder(cfg, u) : cfg \in AllSettings, u \in Usernames}

\* A request that goes through the get_current_user dependency.  Requests are
\* stateless, so the model serves one at a time: resp is the response on its
\* way to the client, and Return hands it over.
GetCurrentUser(api_key, token, up) ==
    /\ resp = NoResponse
    /\ resp' = [op |-> "get_current_user", api_key |-> api_key, token |-> token, up |-> up,
                result |-> get_current_user(settings, users, up, api_key, token, clock)]
    /\ UNCHANGED <<authVars, dataVars>>

\* POST to the token url.
Login(username, password, up) ==
    LET result == login_for_access_token(settings, users, up, username, password, clock) IN
    /\ resp = NoResponse
    /\ resp' = [op |-> "login", username |-> username, password |-> password, up |-> up,
                result |-> result]
    /\ held' = IF result.status = "ok"
               THEN [token |-> result.access_token, at |-> clock,
                     ttl |-> settings.token_expiration_in_minutes, username |-> username]
               ELSE held
    /\ UNCHANGED <<settings, users, clock, dataVars>>

\* The client presents the token it holds, and no API key.
PresentHeld(up) ==
    /\ held # NoHeld
    /\ GetCurrentUser(None, held.token, up)

\* DBAuthProvider.new_instance: the process starts with a configuration.
Reconfigure(cfg) ==
    /\ cfg # settings
    /\ settings' = cfg
    /\ resp' = NoResponse
    /\ UNCHANGED <<users, clock, held, dataVars>>

CreateUser(row) ==
    /\ ValidStore(users \cup {row})
    /\ row \notin users
    /\ users' = users \cup {row}
    /\ resp' = NoResponse
    /\ UNCHANGED <<settings, clock, held, dataVars>>

DeleteUser(row) ==
    /\ row \in users
    /\ users' = users \ {row}
    /\ resp' = NoResponse
    /\ UNCHANGED <<settings, clock, held, dataVars>>

Return ==
    /\ resp # NoResponse
    /\ resp' = NoResponse
    /\ UNCHANGED <<authVars, dataVars>>

Tick(limit) ==
    /\ clock < limit
    /\ clock' = clock + 1
    /\ resp' = NoResponse
    /\ UNCHANGED <<settings, users, held, dataVars>>

DataIdle ==
    /\ datasets = {}
    /\ fields = {}
    /\ questions = {}
    /\ records = {}
    /\ index = {}
    /\ nextId = 1
    /\ inflight = [r \in 1..MaxRequests |-> NoRequest]
    /\ uniqueNames = FALSE

AuthIdle ==
    /\ settings = [secret_key |-> "secret1", algorithm |-> "HS256",
                   token_expiration_in_minutes |-> 0]
    /\ users = {}
    /\ clock = 0
    /\ held = NoHeld

(* Requests against any store, under any configuration *)
Init ==
    /\ settings \in AllSettings
    /\ users \in AllStores
    /\ clock = 0
    /\ held = NoHeld
    /\ resp = NoResponse
    /\ DataIdle

Next ==
    \/ \E k \in ApiKeys \cup {None, ""}, t \in PresentedTokens, up \in BOOLEAN :
           GetCurrentUser(k, t, up)
    \/ \E cfg \in AllSettings : Reconfigure(cfg)
    \/ \E row \in UserRows : CreateUser(row)
    \/ \E row \in UserRows : DeleteUser(row)
    \/ Tick(MaxClock)
    \/ Return

Spec == Init /\ [][Next]_vars

(* The life of a token: login, then the token presented as time passes *)
TokenHorizon == MaxLoginTick + Timedelta(MaxTtlMinutes) + TicksPerSecond + ClockSlack

\* The key and the algorithm stay as configured here: what varies is the ttl.
TokenInit ==
    /\ settings \in {cfg \in AllSettings : cfg.secret_key = "secret1" /\ cfg.algorithm = "HS256"}
    /\ users \in AllStores
    /\ clock = 0
    /\ held = NoHeld
    /\ resp = NoResponse
    /\ DataIdle

TokenNext ==
    \/ /\ clock <= MaxLoginTick
       /\ \E u \in Usernames, p \in Passwords, up \in BOOLEAN : Login(u, p, up)
    \/ \E up \in BOOLEAN : PresentHeld(up)
    \/ \E row \in UserRows : DeleteUser(row)
    \/ Tick(TokenHorizon)
    \/ Return

TokenSpec == TokenInit /\ [][TokenNext]_vars

----------------------------------------------------------------------------
(* The datasets context (argilla.server.contexts.datasets) and the policy *)

NoDataset == [id |-> 0]

DatasetNames == {"a", "b"}
Workspaces == {"w1", "w2"}
FieldNames == {"text"}
QuestionNames == {"rating"}
DatasetIds == 1..(MaxDatasets + 1)

\* The users the Security dependency can resolve for a dataset request.
CurrentUsers == {[username |-> "alice", is_admin |-> TRUE],
                 [username |-> "bob", is_admin |-> FALSE]}

\* authorize(current_user, DatasetPolicyV1.<action>): the mutating actions are the admins'.
authorize(user, action) == user.is_admin

\* The tables and the search index as one value, db.
Db == [datasets |-> datasets, fields |-> fields, questions |-> questions,
       records |-> records, index |-> index, nextId |-> nextId]

Commit(db) ==
    /\ datasets' = db.datasets
    /\ fields' = db.fields
    /\ questions' = db.questions
    /\ records' = db.records
    /\ index' = db.index
    /\ nextId' = db.nextId

get_dataset_by_id(db, dataset_id) ==
    IF \E d \in db.datasets : d.id = dataset_id
    THEN CHOOSE d \in db.datasets : d.id = dataset_id
    ELSE NoDataset

get_dataset_by_name_and_workspace_id(db, name, workspace_id) ==
    IF \E d \in db.datasets : d.name = name /\ d.workspace_id = workspace_id
    THEN CHOOSE d \in db.datasets : d.name = name /\ d.workspace_id = workspace_id
    ELSE NoDataset

get_field_by_name_and_dataset_id(db, name, dataset_id) ==
    \E f \in db.fields : f.name = name /\ f.dataset_id = dataset_id

get_question_by_name_and_dataset_id(db, name, dataset_id) ==
    \E q \in db.questions : q.name = name /\ q.dataset_id = dataset_id

\* datasets.create_dataset: the insert.  A table with the unique constraint
\* refuses a second row of one (name, workspace_id) with an integrity error.
ctx_create_dataset(db, name, workspace_id, unique) ==
    IF unique /\ get_dataset_by_name_and_workspace_id(db, name, workspace_id) # NoDataset
    THEN [db |-> db, status |-> 500]
    ELSE [db |-> [db EXCEPT !.datasets = @ \cup {[id |-> db.nextId, name |-> name,
                                                  workspace_id |-> workspace_id,
                                                  status |-> "draft"]},
                            !.nextId = @ + 1],
          status |-> 201]

\* datasets.delete_dataset: the row goes, and by cascade its fields, questions and records.
ctx_delete_dataset(db, dataset) ==
    [db EXCEPT !.datasets = {d \in @ : d.id # dataset.id},
               !.fields = {f \in @ : f.dataset_id # dataset.id},
               !.questions = {q \in @ : q.dataset_id # dataset.id},
               !.records = {r \in @ : r.dataset_id # dataset.id}]

ctx_create_field(db, dataset, name) ==
    [db EXCEPT !.fields = @ \cup {[dataset_id |-> dataset.id, name |-> name]}]

ctx_create_question(db, dataset, name) ==
    [db EXCEPT !.questions = @ \cup {[dataset_id |-> dataset.id, name |-> name]}]

ctx_create_records(db, dataset) ==
    [db EXCEPT !.records = @ \cup {[dataset_id |-> dataset.id,
                                    seq |-> Cardinality(db.records) + 1]}]

ctx_publish_dataset(db, dataset) ==
    [db EXCEPT !.datasets = {IF d.id = dataset.id THEN [d EXCEPT !.status = "ready"] ELSE d
                                : d \in @},
               !.index = @ \cup {dataset.id}]

----------------------------------------------------------------------------
(* The mutating dataset handlers.  Each gives the tables it leaves and the   *)
(* HTTP status it answers with; accepted tells whether the context function  *)
(* takes the request or raises a ValueError.                                 *)

Answer(db, status) == [db |-> db, status |-> status]
Proceed == 0

\* create_dataset up to the insert: the authorization, then the existence check.
create_dataset_begin(db, user, name, workspace_id) ==
    IF ~authorize(user, "create") THEN 403
    ELSE IF get_dataset_by_name_and_workspace_id(db, name, workspace_id) # NoDataset THEN 409
    ELSE Proceed

create_dataset(db, user, name, workspace_id, unique) ==
    LET begun == create_dataset_begin(db, user, name, workspace_id) IN
    IF begun # Proceed THEN Answer(db, begun)
    ELSE ctx_create_dataset(db, name, workspace_id, unique)

create_dataset_field(db, user, dataset_id, name, accepted) ==
    IF ~authorize(user, "create_field") THEN Answer(db, 403)
    ELSE LET dataset == get_dataset_by_id(db, dataset_id) IN
         IF dataset = NoDataset THEN Answer(db, 404)
         ELSE IF get_field_by_name_and_dataset_id(db, name, dataset_id) THEN Answer(db, 409)
         ELSE IF ~accepted THEN Answer(db, 422)
         ELSE Answer(ctx_create_field(db, dataset, name), 201)

create_dataset_question(db, user, dataset_id, name, accepted) ==
    IF ~authorize(user, "create_question") THEN Answer(db, 403)
    ELSE LET dataset == get_dataset_by_id(db, dataset_id) IN
         IF dataset = NoDataset THEN Answer(db, 404)
         ELSE IF get_question_by_name_and_dataset_id(db, name, dataset_id) THEN Answer(db, 409)
         ELSE IF ~accepted THEN Answer(db, 422)
         ELSE Answer(ctx_create_question(db, dataset, name), 201)

create_dataset_records(db, user, dataset_id, accepted) ==
    IF ~authorize(user, "create_records") THEN Answer(db, 403)
    ELSE LET dataset == get_dataset_by_id(db, dataset_id) IN
         IF dataset = NoDataset THEN Answer(db, 404)
         ELSE IF ~accepted THEN Answer(db, 422)
         ELSE Answer(ctx_create_records(db, dataset), 204)

publish_dataset(db, user, dataset_id, accepted) ==
    IF ~authorize(user, "publish") THEN Answer(db, 403)
    ELSE LET dataset == get_dataset_by_id(db, dataset_id) IN
         IF dataset = NoDataset THEN Answer(db, 404)
         ELSE IF ~accepted THEN Answer(db, 422)
         ELSE Answer(ctx_publish_dataset(db, dataset), 200)

\* A variant that looks the dataset up before it authorizes, as the read handlers do.
delete_dataset_begin_LookupFirst(db, user, dataset_id) ==
    IF get_dataset_by_id(db, dataset_id) = NoDataset THEN 404
    ELSE IF ~authorize(user, "delete") THEN 403
    ELSE Proceed

\* delete_dataset up to the delete: the authorization, then the lookup.
delete_dataset_begin(db, user, dataset_id) ==
    IF ~authorize(user, "delete") THEN 403
    ELSE IF get_dataset_by_id(db, dataset_id) = NoDataset THEN 404
    ELSE Proceed

delete_dataset(db, user, dataset_id) ==
    LET begun == delete_dataset_begin(db, user, dataset_id) IN
    IF begun # Proceed THEN Answer(db, begun)
    ELSE Answer(ctx_delete_dataset(db, get_dataset_by_id(db, dataset_id)), 200)

----------------------------------------------------------------------------
(* Dataset requests served one at a time *)

Served(op, user, dataset_id, out) ==
    /\ resp = NoResponse
    /\ resp' = [op |-> op, user |-> user, dataset_id |-> dataset_id, status |-> out.status]
    /\ Commit(out.db)
    /\ UNCHANGED <<authVars, inflight, uniqueNames>>

CreateDataset(user, name, workspace_id) ==
    /\ nextId <= MaxDatasets
    /\ Served("create_dataset", user, 0,
              create_dataset(Db, user, name, workspace_id, uniqueNames))

CreateDatasetField(user, dataset_id, name, accepted) ==
    Served("create_dataset_field", user, dataset_id,
           create_dataset_field(Db, user, dataset_id, name, accepted))

CreateDatasetQuestion(user, dataset_id, name, accepted) ==
    Served("create_dataset_question", user, dataset_id,
           create_dataset_question(Db, user, dataset_id, name, accepted))

CreateDatasetRecords(user, dataset_id, accepted) ==
    /\ Cardinality(records) < MaxRecords
    /\ Served("create_dataset_records", user, dataset_id,
              create_dataset_records(Db, user, dataset_id, accepted))

PublishDataset(user, dataset_id, accepted) ==
    Served("publish_dataset", user, dataset_id,
           publish_dataset(Db, user, dataset_id, accepted))

DeleteDataset(user, dataset_id) ==
    Served("delete_dataset", user, dataset_id, delete_dataset(Db, user, dataset_id))

DataInit ==
    /\ AuthIdle
    /\ resp = NoResponse
    /\ datasets = {}
    /\ fields = {}
    /\ questions = {}
    /\ records = {}
    /\ index = {}
    /\ nextId = 1
    /\ inflight = [r \in 1..MaxRequests |-> NoRequest]
    /\ uniqueNames \in BOOLEAN

\* Served one at a time the handlers never see two datasets of one name in a
\* workspace, so one name over the workspaces is all DataSpec creates.
ServedNames == {"a"}

DataNext ==
    \/ \E u \in CurrentUsers, n \in ServedNames, w \in Workspaces : CreateDataset(u, n, w)
    \/ \E u \in CurrentUsers, d \in DatasetIds, n \in FieldNames, ok \in BOOLEAN :
           CreateDatasetField(u, d, n, ok)
    \/ \E u \in CurrentUsers, d \in DatasetIds, n \in QuestionNames, ok \in BOOLEAN :
           CreateDatasetQuestion(u, d, n, ok)
    \/ \E u \in CurrentUsers, d \in DatasetIds, ok \in BOOLEAN : CreateDatasetRecords(u, d, ok)
    \/ \E u \in CurrentUsers, d \in DatasetIds, ok \in BOOLEAN : PublishDataset(u, d, ok)
    \/ \E u \in CurrentUsers, d \in DatasetIds : DeleteDataset(u, d)
    \/ Return

DataSpec == DataInit /\ [][DataNext]_vars

----------------------------------------------------------------------------
(* create_dataset and delete_dataset requests running concurrently: each is  *)
(* a plain def, which the framework runs on a thread of its pool, so another *)
(* request's database calls may fall between its own.                        *)

PendingCreates == {r \in 1..MaxRequests : inflight[r].op = "create_dataset"}

Stored(name, workspace_id) ==
    get_dataset_by_name_and_workspace_id(Db, name, workspace_id) # NoDataset

CreateAnswer(user, name, workspace_id, status) ==
    [op |-> "create_dataset", user |-> user, name |-> name, workspace_id |-> workspace_id,
     status |-> status, existed |-> Stored(name, workspace_id)]

\* create_dataset, lines 170-176: authorize and the existence check.
BeginCreate(r, user, name, workspace_id) ==
    LET begun == create_dataset_begin(Db, user, name, workspace_id) IN
    /\ inflight[r] = NoRequest
    /\ nextId + Cardinality(PendingCreates) <= MaxDatasets
    /\ IF begun # Proceed
       THEN /\ resp' = CreateAnswer(user, name, workspace_id, begun)
            /\ UNCHANGED inflight
       ELSE /\ inflight' = [inflight EXCEPT ![r] =
                               [op |-> "create_dataset", user |-> user, name |-> name,
                                workspace_id |-> workspace_id]]
            /\ UNCHANGED resp
    /\ UNCHANGED <<authVars, tables, uniqueNames>>

\* create_dataset, line 178: the insert, and the answer.
FinishCreate(r) ==
    LET req == inflight[r]
        out == ctx_create_dataset(Db, req.name, req.workspace_id, uniqueNames)
    IN  /\ req.op = "create_dataset"
        /\ Commit(out.db)
        /\ resp' = CreateAnswer(req.user, req.name, req.workspace_id, out.status)
        /\ inflight' = [inflight EXCEPT ![r] = NoRequest]
        /\ UNCHANGED <<authVars, uniqueNames>>

\* delete_dataset, lines 280-282: authorize and the lookup.
BeginDelete(r, user, dataset_id) ==
    LET begun == delete_dataset_begin(Db, user, dataset_id) IN
    /\ inflight[r] = NoRequest
    /\ IF begun # Proceed
       THEN /\ resp' = [op |-> "delete_dataset", user |-> user, dataset_id |-> dataset_id,
                        status |-> begun]
            /\ UNCHANGED inflight
       ELSE /\ inflight' = [inflight EXCEPT ![r] =
                               [op |-> "delete_dataset", user |-> user,
                                dataset |-> get_dataset_by_id(Db, dataset_id)]]
            /\ UNCHANGED resp
    /\ UNCHANGED <<authVars, tables, uniqueNames>>

\* delete_dataset, lines 284-286: the delete, and the answer.
FinishDelete(r) ==
    LET req == inflight[r] IN
    /\ req.op = "delete_dataset"
    /\ Commit(ctx_delete_dataset(Db, req.dataset))
    /\ resp' = [op |-> "delete_dataset", user |-> req.user, dataset_id |-> req.dataset.id,
                status |-> 200]
    /\ inflight' = [inflight EXCEPT ![r] = NoRequest]
    /\ UNCHANGED <<authVars, uniqueNames>>

RaceNext ==
    \/ \E r \in 1..MaxRequests, u \in CurrentUsers, n \in DatasetNames, w \in Workspaces :
           BeginCreate(r, u, n, w)
    \/ \E r \in 1..MaxRequests : FinishCreate(r)
    \/ \E r \in 1..MaxRequests, u \in CurrentUsers, d \in DatasetIds : BeginDelete(r, u, d)
    \/ \E r \in 1..MaxRequests : FinishDelete(r)

RaceSpec == DataInit /\ [][RaceNext]_vars

----------------------------------------------------------------------------
(* Properties of the authentication provider *)

Unauthenticated == [status |-> "UnauthorizedError"]
Unavailable == [status |-> "OperationalError"]
Authenticated(u) == [status |-> "ok", user |-> u]

IsAuthRequest == resp.op = "get_current_user"

\* The token is one the configured key and algorithm verify at this instant.
Verifies(token) ==
    /\ token.kind = "jwt"
    /\ token.key = settings.secret_key
    /\ token.alg = settings.algorithm
    /\ ("exp" \in DOMAIN token.claims => token.claims["exp"] >= Timegm(clock))

HasSubject(token) ==
    /\ "sub" \in DOMAIN token.claims
    /\ token.claims["sub"] # ""

OwnerOfKey(k) == CHOOSE u \in users : u.api_key = k
UserNamed(n) == CHOOSE u \in users : u.username = n
KeyKnown(k) == \E u \in users : u.api_key = k
NameKnown(n) == \E u \in users : u.username = n

ByKey == Truthy(resp.api_key)
ByToken == ~Truthy(resp.api_key) /\ Verifies(resp.token) /\ HasSubject(resp.token)

\* C1: when a request carries an API key, the outcome is that of the API-key
\* lookup alone (the user owning the key, Unauthenticated if nobody owns it,
\* the store's failure if the lookup fails), whatever bearer token comes with it.
C1_ApiKeyPrecedence ==
    (IsAuthRequest /\ ByKey) =>
        resp.result = IF ~resp.up THEN Unavailable
                      ELSE IF KeyKnown(resp.api_key)
                           THEN Authenticated(OwnerOfKey(resp.api_key))
                           ELSE Unauthenticated

\* C1 witness: the API key is alice's or bob's, the bearer token alone would
\* authenticate the other user, and the key's owner is the one resolved.
C1_Witness ==
    /\ IsAuthRequest /\ ByKey /\ resp.up
    /\ resp.result.status = "ok"
    /\ LET alone == get_current_user(settings, users, TRUE, None, resp.token, clock) IN
       /\ alone.status = "ok"
       /\ alone.user # resp.result.user

\* C2: a request is Authenticated as u only if u is the stored owner of the
\* API key presented, or no API key is presented and the token verifies,
\* names a subject, and u is the stored user of that name; with the store
\* answering, every other request ends Unauthenticated.
C2_AuthenticatedOnlyByCredential ==
    IsAuthRequest =>
        LET r == resp.result
            keyUser == ByKey /\ KeyKnown(resp.api_key)
            tokenUser == ByToken /\ NameKnown(resp.token.claims["sub"])
        IN  /\ r.status = "ok" =>
                  /\ resp.up
                  /\ r.user \in users
                  /\ \/ ByKey /\ r.user.api_key = resp.api_key
                     \/ ByToken /\ r.user.username = resp.token.claims["sub"]
            /\ resp.up => (r.status = "ok" <=> (keyUser \/ tokenUser))
            /\ (resp.up /\ r.status # "ok") => r = Unauthenticated

\* C2 witness: a token that verifies but names nobody in the store is refused.
C2_Witness ==
    /\ IsAuthRequest /\ resp.up
    /\ ByToken
    /\ ~NameKnown(resp.token.claims["sub"])
    /\ users # {}
    /\ resp.result = Unauthenticated

\* C6: a token signed with another key than the configured one, or with
\* another algorithm, never authenticates, whatever subject it names; so the
\* tokens login issued under another secret key are all refused.
C6_ForeignSignatureRejected ==
    (/\ IsAuthRequest
     /\ ~Truthy(resp.api_key)
     /\ resp.token.kind = "jwt"
     /\ \/ resp.token.key # settings.secret_key
        \/ resp.token.alg # settings.algorithm)
        => resp.result = Unauthenticated

\* C6 witness: a token login issued for a stored user before the secret key
\* was changed is refused.
C6_Witness ==
    /\ IsAuthRequest /\ resp.up /\ ~Truthy(resp.api_key)
    /\ \E u \in users, cfg \in AllSettings :
          /\ cfg.secret_key # settings.secret_key
          /\ cfg.algorithm = settings.algorithm
          /\ resp.token \in IssuedUnder(cfg, u.username)
    /\ resp.result = Unauthenticated

\* The request reaches a lookup in the credential store.
LookupPerformed == ByKey \/ ByToken

\* C7: every authentication failure is the one Unauthenticated error, with
\* nothing telling the causes apart, and a failure of the credential store
\* during the lookup is the store's own error, never Unauthenticated.
C7_FailureCategories ==
    IsAuthRequest =>
        LET r == resp.result IN
        /\ r.status \in {"ok", "UnauthorizedError", "OperationalError"}
        /\ r.status = "UnauthorizedError" => r = Unauthenticated
        /\ (LookupPerformed /\ ~resp.up) <=> r = Unavailable
        /\ ~LookupPerformed => r = Unauthenticated
        /\ (resp.up /\ ByKey /\ ~KeyKnown(resp.api_key)) => r = Unauthenticated
        /\ (resp.up /\ ByToken /\ ~NameKnown(resp.token.claims["sub"])) => r = Unauthenticated

\* C7 witness: the token verifies and names a subject, the store fails during
\* the lookup, and the request ends with the store's error.
C7_Witness ==
    /\ IsAuthRequest /\ ~resp.up
    /\ ByToken
    /\ resp.result = Unavailable

----------------------------------------------------------------------------
(* Properties of login and of the tokens it issues (TokenSpec) *)

IsLogin == resp.op = "login"

\* The instant the claims give for the expiry of the held token: issue instant plus ttl.
HeldExpiry == held.at + Timedelta(held.ttl)

HeldDecoded == jwt_decode(held.token, settings.secret_key, {settings.algorithm}, clock)

\* C3: a token issued at instant t with ttl T verifies at every instant
\* strictly before t + T and fails as expired at every instant from t + T on.
C3_ExpiryWindow ==
    held # NoHeld =>
        /\ clock < HeldExpiry => ~HeldDecoded.raised
        /\ clock >= HeldExpiry =>
               /\ HeldDecoded.raised
               /\ HeldDecoded.error = "ExpiredSignatureError"

\* C4: the token a successful login returns decodes to the username it was
\* issued for, and presented with no API key before its expiry, while the
\* user is still in the store and the store answers, it authenticates that user.
C4_RoundTrip ==
    /\ (IsLogin /\ resp.result.status = "ok") =>
           LET decoded == jwt_decode(resp.result.access_token, settings.secret_key,
                                     {settings.algorithm}, clock)
           IN  /\ ~decoded.raised
               /\ PayloadGet(decoded.value, "sub") = resp.username
    /\ (/\ IsAuthRequest
        /\ held # NoHeld
        /\ resp.token = held.token
        /\ ~Truthy(resp.api_key)
        /\ resp.up
        /\ clock < HeldExpiry
        /\ NameKnown(held.username))
           => resp.result = Authenticated(UserNamed(held.username))

\* C4 witness: the held token is presented on the last tick before its expiry
\* and authenticates the user who logged in.
C4_Witness ==
    /\ IsAuthRequest
    /\ held # NoHeld
    /\ resp.token = held.token
    /\ clock + 1 = HeldExpiry
    /\ resp.result.status = "ok"
    /\ resp.result.user.username = held.username

LoginFails(username, password) ==
    \/ ~NameKnown(username)
    \/ ~verify_password(password, UserNamed(username).password_hash)

\* C5: a login for a username the store does not hold and a login with a
\* wrong password end in the same UnauthorizedError, which carries nothing
\* else, and no token is issued.
C5_LoginFailuresAlike ==
    /\ (IsLogin /\ resp.up /\ LoginFails(resp.username, resp.password)) =>
           resp.result = Unauthenticated
    /\ \A u1, u2 \in Usernames, p1, p2 \in Passwords :
           (LoginFails(u1, p1) /\ LoginFails(u2, p2)) =>
               login_for_access_token(settings, users, TRUE, u1, p1, clock)
                   = login_for_access_token(settings, users, TRUE, u2, p2, clock)

\* C5 witness: a wrong password for a stored user is refused in a store
\* that also lacks some username.
C5_Witness ==
    /\ IsLogin /\ resp.up
    /\ NameKnown(resp.username)
    /\ ~verify_password(resp.password, UserNamed(resp.username).password_hash)
    /\ \E u \in Usernames : ~NameKnown(u)
    /\ resp.result = Unauthenticated

\* C8: every token a successful login returns carries the claims sub, the
\* username, and exp, the issue instant plus the configured ttl, for every
\* configured ttl from 0 on.
C8_LoginTokenCarriesExp ==
    (IsLogin /\ resp.result.status = "ok") =>
        LET claims == resp.result.access_token.claims IN
        /\ DOMAIN claims = {"sub", "exp"}
        /\ claims["sub"] = resp.username
        /\ claims["exp"] = Timegm(clock + Timedelta(settings.token_expiration_in_minutes))

----------------------------------------------------------------------------
(* Properties of the dataset handlers *)

MutatingOps == {"create_dataset", "create_dataset_field", "create_dataset_question",
                "create_dataset_records", "publish_dataset", "delete_dataset"}

\* C9: a mutating dataset handler answers a user the policy denies with the
\* authorization failure, whether or not the dataset exists, and leaves the
\* datasets, fields, questions, records and the index as they were.
C9_AuthorizationFirst ==
    [][(resp'.op \in MutatingOps /\ ~authorize(resp'.user, resp'.op)) =>
           (resp'.status = 403 /\ UNCHANGED tables)]_vars

\* C9 witness: a denied user's request for a dataset id that does not exist
\* is answered 403 while other datasets are stored.
C9_Witness ==
    /\ resp.op \in MutatingOps \ {"create_dataset"}
    /\ ~authorize(resp.user, resp.op)
    /\ get_dataset_by_id(Db, resp.dataset_id) = NoDataset
    /\ datasets # {}
    /\ resp.status = 403

\* C10: under every interleaving of create_dataset and delete_dataset
\* requests no two stored datasets share one (name, workspace_id), and a
\* create_dataset by an authorized user for a pair that is stored when it is
\* answered gets 409 Conflict.
C10_UniqueNamePerWorkspace ==
    /\ \A d1, d2 \in datasets :
           (d1.name = d2.name /\ d1.workspace_id = d2.workspace_id) => d1 = d2
    /\ (/\ resp.op = "create_dataset"
        /\ authorize(resp.user, "create")
        /\ resp.existed) => resp.status = 409

====
